---- MODULE Spec2Model ----
(***************************************************************************)
(* EduVerify: the wallet session (Web3Provider), the identity layer        *)
(* (AuthProvider) and the injected wallet (window.ethereum) they talk to.  *)
(*                                                                         *)
(* The browser runs one JavaScript task at a time.  Every action below is  *)
(* one such task: an event handler, or the part of an async function       *)
(* between two awaits of a provider call.  React state written by a task   *)
(* is visible to the next one.                                             *)
(***************************************************************************)
EXTENDS Integers, Sequences, FiniteSets, TLC

\* ---------------------------------------------------------------- bounds
NumAccounts == 2        \* accounts the wallet holds
NumOtherChains == 1     \* chains of the wallet besides the required one
MaxRepeats == 2         \* successful connects in a row that are counted
NumRandomIds == 1       \* values Math.random() gives an account id
MaxTokens == 3          \* tokens the first account owns on the chain

\* ------------------------------------------------------------- constants
REQUIRED_CHAIN_ID == 656476

\* null / undefined of every handle, string-like value and record
NULL == <<>>
\* null of the numeric chainId state
NULL_CHAIN == 0
\* null of the networkName state
NULL_NAME == "null"

\* the value useState(null) gives `provider` in the first render; the
\* callbacks registered by the mount effect close over that render
FirstRenderProvider == NULL
\* the BrowserProvider object created by the mount effect
BrowserProvider == <<"BrowserProvider">>

HexChars == <<"1", "2", "3", "4", "5", "6", "7", "8", "9", "a", "b", "c", "d", "e", "f">>

\* the address of the wallet's k-th account, as the string signer.getAddress() returns
AddressOf(k) == <<"0", "x", "A", "B", "C", "D", "0", HexChars[k]>>

Addresses == {AddressOf(k) : k \in 1..NumAccounts}

Chains == {REQUIRED_CHAIN_ID} \cup (1..NumOtherChains)

\* network.name as the provider reports it for a chain
NetworkName(c) == IF c = 1 THEN "mainnet" ELSE "unknown"

\* n.toString(16), as a sequence of digit values: the chainIdHex the wallet emits
RECURSIVE ToString16(_)
ToString16(n) == IF n < 16 THEN <<n>> ELSE Append(ToString16(n \div 16), n % 16)

\* Number.parseInt(chainIdHex, 16)
RECURSIVE ParseInt16(_)
ParseInt16(s) ==
  IF s = <<>> THEN 0
  ELSE 16 * ParseInt16(SubSeq(s, 1, Len(s) - 1)) + s[Len(s)]

\* chainId === REQUIRED_CHAIN_ID
IsRequired(c) == c = REQUIRED_CHAIN_ID

\* new ethers.Contract(contractAddress, contractABI, signer) when the chain
\* is the required one; otherwise the contract state is not written
BindContract(c, sgn, old) == IF IsRequired(c) THEN sgn ELSE old

\* ------------------------------------------------------------ identities
\* JSON.stringify(user): keys whose value is undefined are left out
JSONStringify(u) ==
  [k \in {f \in DOMAIN u : ~(f \in {"email", "walletAddress"} /\ u[f] = NULL)} |-> u[k]]

\* JSON.parse(item), read through the User interface: a missing key reads undefined
JSONParse(s) ==
  IF s = NULL THEN NULL
  ELSE [k \in {"id", "name", "email", "accountType", "walletAddress"} |->
          IF k \in DOMAIN s THEN s[k] ELSE NULL]

\* address.slice(0, 6)
Slice6(a) == SubSeq(a, 1, IF Len(a) < 6 THEN Len(a) ELSE 6)

\* a synthesized identity whose id is the bare address
NewWalletUserBareId(a) ==
  [id |-> a, name |-> <<"User ">> \o Slice6(a), email |-> NULL,
   accountType |-> "student", walletAddress |-> a]

\* the identity handleWalletConnection synthesizes for a wallet-only user
NewWalletUser(a) ==
  [id |-> <<"wallet-">> \o a, name |-> <<"User ">> \o Slice6(a), email |-> NULL,
   accountType |-> "student", walletAddress |-> a]

VARIABLES
  ethereum,      \* window.ethereum: present, chain, account, listener counts
  localStorage,  \* the "eduverify_user" item, NULL when absent
  web3,          \* Web3Provider state
  auth,          \* AuthProvider state
  deps,          \* the [address, isLoading] the wallet-connection effect last ran with
  chk,           \* the checkConnection task of the mount effect
  conn,          \* the connectWallet call in flight, per caller
  reloadPending, \* window.location.reload() was called, the document is still alive
  toast,         \* title of the last notification
  sw,            \* the switchNetwork call: where it is suspended, the requests it
                 \* sent to the wallet, and how the last call ended
  settings,      \* the settings screen's handleConnectWallet in flight: where it
                 \* is, and the user of the render it was called from
  screen,        \* a credentials screen: the deps its fetch effect last ran with,
                 \* the list it shows, and which fetch wrote that list
  fetch,         \* the fetchCredentials calls in flight, the earlier and the later
  loggedOut,     \* logout() completed and the user has not logged in, registered
                 \* or connected a wallet since
  lastOk         \* session and listeners after the last successful connect that no
                 \* other task crossed, and how many such succeeded in a row; NULL
                 \* once anything else acted

vars == <<ethereum, localStorage, web3, auth, deps, chk, conn, reloadPending, toast, sw, settings, screen, fetch, loggedOut, lastOk>>

\* connectWallet is called by screens (latest render) and by handleAccountsChanged
Callers == {"user", "event"}

\* a call record: where the call is suspended, its locals chainId and signer,
\* the session fields at the time of the call (NULL once another task wrote
\* the session meanwhile) and the value the last call returned
IdleCall == [pc |-> "idle", chainId |-> NULL_CHAIN, signer |-> NULL, pre |-> NULL, ret |-> NULL]

\* no switchNetwork call in flight, none made yet
IdleSwitch == [pc |-> "idle", requests |-> <<>>, result |-> "none"]

\* no handleConnectWallet of the settings screen in flight
IdleSettings == [pc |-> "idle", user |-> NULL]

\* fetchCredentials calls that can be in flight together: the one the effect
\* started last and the one it started before
FetchCalls == {"earlier", "later"}

\* no fetchCredentials call: its closure's address and contract, its locals
\* count, i, tokenId and credentialsList, and the indices it skipped
IdleFetch ==
  [pc |-> "idle", address |-> NULL, contract |-> NULL, count |-> 0, i |-> 0,
   tokenId |-> 0, credentialsList |-> <<>>, skipped |-> {}]

\* a credentials screen after its first render: useState([]) and the effect
\* run with the session of a fresh document
MountScreen ==
  [mounted |-> TRUE,
   deps |-> [contract |-> NULL, address |-> NULL, isCorrectNetwork |-> FALSE],
   credentials |-> <<>>, error |-> FALSE, shownFor |-> NULL, skipped |-> {}]

\* the session fields the claims speak about
Fields(w) == <<w.address, w.signer, w.contract, w.chainId, w.networkName>>

\* another task wrote the session while a connectWallet call was suspended
Disturb(c) == [k \in Callers |-> [c[k] EXCEPT !.pre = NULL]]

\* -------------------------------------------------- login and registration
\* "a@institution.org"
EmailInstitution ==
  <<"a", "@", "i", "n", "s", "t", "i", "t", "u", "t", "i", "o", "n", ".", "o", "r", "g">>
\* "a@school.org"
EmailSchool == <<"a", "@", "s", "c", "h", "o", "o", "l", ".", "o", "r", "g">>
\* "institution@b.io"
EmailLocalPart ==
  <<"i", "n", "s", "t", "i", "t", "u", "t", "i", "o", "n", "@", "b", ".", "i", "o">>

\* what the login and registration forms submit
Emails == {EmailInstitution, EmailSchool, EmailLocalPart}
Passwords == {"secret1", "secret2"}

\* Math.random().toString(36).substring(2, 9)
RandomIds == {<<"r", HexChars[i]>> : i \in 1..NumRandomIds}

\* s.includes(sub)
Includes(s, sub) ==
  \E i \in 1..(Len(s) - Len(sub) + 1) : SubSeq(s, i, i + Len(sub) - 1) = sub

\* s.split("@")[0]
SplitAt0(s) ==
  LET at == {i \in 1..Len(s) : s[i] = "@"}
  IN  IF at = {} THEN s
      ELSE SubSeq(s, 1, (CHOOSE i \in at : \A j \in at : i <= j) - 1)

\* a check that looks for "institution" in the domain only
IsInstitutionByDomain(email) ==
  Includes(SubSeq(email, Len(SplitAt0(email)) + 1, Len(email)),
           <<"i", "n", "s", "t", "i", "t", "u", "t", "i", "o", "n">>)

\* email.includes("institution")
IsInstitution(email) ==
  Includes(email, <<"i", "n", "s", "t", "i", "t", "u", "t", "i", "o", "n">>)

\* the user login(email, password) builds when the session address is address
LoginUser(email, id, address) ==
  [id |-> id,
   name |-> IF IsInstitution(email) THEN SplitAt0(email) \o <<" University">>
            ELSE SplitAt0(email),
   email |-> email,
   accountType |-> IF IsInstitution(email) THEN "institution" ELSE "student",
   walletAddress |-> address]

\* what the registration forms pass to register(): the email form, and the
\* wallet form, which has no email
UserDatas ==
  {[name |-> <<"A", "n", "n">>, email |-> EmailSchool, accountType |-> "student"],
   [name |-> <<"U", "n", "i">>, email |-> NULL, accountType |-> "institution"]}

\* the user register(userData) builds when the session address is address
RegisterUser(userData, id, address) ==
  [id |-> id, name |-> userData.name, email |-> userData.email,
   accountType |-> userData.accountType, walletAddress |-> address]

\* ------------------------------------------------------------------ mount
\* useState initial values of Web3Provider, then the mount effect's setProvider
MountWeb3(eth) ==
  [provider |-> IF eth.present THEN BrowserProvider ELSE NULL,
   signer |-> NULL, contract |-> NULL, address |-> NULL, isConnecting |-> FALSE,
   chainId |-> NULL_CHAIN, networkName |-> NULL_NAME, isCorrectNetwork |-> FALSE]

\* checkConnection() runs up to its first await
MountChk(eth) ==
  [pc |-> IF eth.present THEN "getNetwork" ELSE "done", chainId |-> NULL_CHAIN, signer |-> NULL]

\* window.ethereum.on("accountsChanged" / "chainChanged") of a fresh document
MountListeners(eth) ==
  [eth EXCEPT !.accountsChanged = IF eth.present THEN 1 ELSE 0,
              !.chainChanged = IF eth.present THEN 1 ELSE 0]

\* a session check that ignores the stored user
CheckSessionForgets(item) == [user |-> NULL, isLoading |-> FALSE]

\* checkSession: the stored user, if any, becomes the user; isLoading ends false
CheckSession(item) == [user |-> JSONParse(item), isLoading |-> FALSE]

Init ==
  /\ ethereum \in {MountListeners([present |-> p, chain |-> c, account |-> a,
                                   accountsChanged |-> 0, chainChanged |-> 0]) :
                     p \in BOOLEAN, c \in Chains, a \in Addresses \cup {NULL}}
  /\ localStorage = NULL
  /\ web3 = MountWeb3(ethereum)
  /\ auth = CheckSession(localStorage)
  /\ deps = [address |-> NULL, isLoading |-> FALSE]
  /\ chk = MountChk(ethereum)
  /\ conn = [k \in Callers |-> IdleCall]
  /\ reloadPending = FALSE
  /\ toast = "none"
  /\ sw = IdleSwitch
  /\ settings = IdleSettings
  /\ screen = MountScreen
  /\ fetch = [s \in FetchCalls |-> IdleFetch]
  /\ loggedOut = FALSE
  /\ lastOk = NULL

\* The document is replaced: React state starts over, localStorage and the
\* wallet stay, suspended tasks of the old document never resume.
Reload ==
  /\ ethereum' = MountListeners(ethereum)
  /\ web3' = MountWeb3(ethereum)
  /\ auth' = CheckSession(localStorage)
  /\ deps' = [address |-> NULL, isLoading |-> FALSE]
  /\ chk' = MountChk(ethereum)
  /\ conn' = [k \in Callers |-> IdleCall]
  /\ reloadPending' = FALSE
  /\ toast' = "none"
  /\ sw' = IdleSwitch
  /\ settings' = IdleSettings
  /\ screen' = MountScreen
  /\ fetch' = [s \in FetchCalls |-> IdleFetch]
  /\ lastOk' = NULL
  /\ UNCHANGED <<localStorage, loggedOut>>

\* the reload requested by handleChainChanged completes
ReloadCompletes == reloadPending /\ Reload

\* the user reloads the page
UserReload == ~reloadPending /\ Reload

\* --------------------------------------------------------- state setters
\* setChainId(chainId); setNetworkName(network.name); setIsCorrectNetwork(...)
SetNetwork(w, c) ==
  [w EXCEPT !.chainId = c, !.networkName = NetworkName(c), !.isCorrectNetwork = IsRequired(c)]

\* setSigner(signer); setAddress(address); setContract(contract) on the required chain
SetAccount(w, c, sgn) ==
  [w EXCEPT !.signer = sgn, !.address = sgn, !.contract = BindContract(c, sgn, w.contract)]

\* a disconnect that forgets the network as well
ClearAccountAndNetwork(w) ==
  [w EXCEPT !.signer = NULL, !.address = NULL, !.contract = NULL,
            !.chainId = NULL_CHAIN, !.networkName = NULL_NAME]

\* setSigner(null); setAddress(null); setContract(null)
ClearAccount(w) == [w EXCEPT !.signer = NULL, !.address = NULL, !.contract = NULL]

\* --------------------------------------------------------- checkConnection
ChkGetNetwork ==
  /\ chk.pc = "getNetwork"
  /\ chk' = [chk EXCEPT !.pc = "listAccounts", !.chainId = ethereum.chain]
  /\ web3' = SetNetwork(web3, ethereum.chain)
  /\ conn' = Disturb(conn)
  /\ lastOk' = NULL
  /\ UNCHANGED <<sw, settings, screen, fetch, loggedOut, ethereum, localStorage, auth, deps, reloadPending, toast>>

ChkListAccounts ==
  /\ chk.pc = "listAccounts"
  /\ chk' = [chk EXCEPT !.pc = IF ethereum.account # NULL THEN "getSigner" ELSE "done"]
  /\ UNCHANGED <<sw, settings, screen, fetch, loggedOut, ethereum, localStorage, web3, auth, deps, conn, reloadPending, toast, lastOk>>

ChkGetSigner ==
  /\ chk.pc = "getSigner"
  /\ ethereum.account # NULL
  /\ chk' = [chk EXCEPT !.pc = "getAddress", !.signer = ethereum.account]
  /\ UNCHANGED <<sw, settings, screen, fetch, loggedOut, ethereum, localStorage, web3, auth, deps, conn, reloadPending, toast, lastOk>>

ChkGetAddress ==
  /\ chk.pc = "getAddress"
  /\ chk' = [chk EXCEPT !.pc = "done"]
  /\ web3' = SetAccount(web3, chk.chainId, chk.signer)
  /\ conn' = Disturb(conn)
  /\ lastOk' = NULL
  /\ UNCHANGED <<sw, settings, screen, fetch, loggedOut, ethereum, localStorage, auth, deps, reloadPending, toast>>

\* a provider call of checkConnection rejects: the catch only logs
ChkFails ==
  /\ chk.pc \in {"getNetwork", "listAccounts", "getSigner", "getAddress"}
  /\ chk' = [chk EXCEPT !.pc = "done"]
  /\ UNCHANGED <<sw, settings, screen, fetch, loggedOut, ethereum, localStorage, web3, auth, deps, conn, reloadPending, toast, lastOk>>

\* ----------------------------------------------------------- connectWallet
\* connectWallet() up to its first await, for a caller whose closure holds
\* provider p; the result is the session, the call record and the toast
ConnectWalletEntry(p, w, t) ==
  IF p = NULL
  THEN [web3 |-> w, call |-> IdleCall, toast |-> "No provider found"]
  ELSE [web3 |-> [w EXCEPT !.isConnecting = TRUE],
        call |-> [IdleCall EXCEPT !.pc = "eth_requestAccounts", !.pre = Fields(w)],
        toast |-> t]

\* a handler that treats an empty accounts list like any other
HandleAccountsChangedReconnects(accounts, w, t) ==
  LET r == ConnectWalletEntry(FirstRenderProvider, w, t)
  IN  [web3 |-> r.web3, call |-> r.call, called |-> TRUE, toast |-> r.toast]

\* handleAccountsChanged(accounts)
HandleAccountsChanged(accounts, w, t) ==
  IF Len(accounts) = 0
  THEN [web3 |-> ClearAccount(w), call |-> IdleCall, called |-> FALSE, toast |-> "Wallet disconnected"]
  ELSE LET r == ConnectWalletEntry(FirstRenderProvider, w, t)
       IN  [web3 |-> r.web3, call |-> r.call, called |-> TRUE, toast |-> r.toast]

\* the accounts list the wallet emits after its account became a
AccountsList(a) == IF a = NULL THEN <<>> ELSE <<a>>

\* the wallet's account changes; it emits accountsChanged to the listener
AccountsChanged(a) ==
  /\ ethereum.present
  /\ ethereum.accountsChanged > 0
  /\ a # ethereum.account
  /\ conn["event"].pc = "idle"
  /\ ethereum' = [ethereum EXCEPT !.account = a]
  /\ LET r == HandleAccountsChanged(AccountsList(a), web3, toast)
         c == Disturb(conn)
     IN  /\ web3' = r.web3
         /\ toast' = r.toast
         /\ conn' = IF r.called THEN [c EXCEPT !["event"] = r.call] ELSE c
  /\ lastOk' = NULL
  /\ UNCHANGED <<sw, settings, screen, fetch, loggedOut, localStorage, auth, deps, chk, reloadPending>>

\* a screen calls connectWallet() of the latest render
ConnectWallet ==
  /\ conn["user"].pc = "idle"
  /\ LET r == ConnectWalletEntry(web3.provider, web3, toast)
     IN  /\ web3' = r.web3
         /\ toast' = r.toast
         /\ conn' = [conn EXCEPT !["user"] = r.call]
  /\ lastOk' = IF web3.provider = NULL THEN NULL ELSE lastOk
  /\ UNCHANGED <<sw, settings, screen, fetch, loggedOut, ethereum, localStorage, auth, deps, chk, reloadPending>>

\* eth_requestAccounts resolves: at once when an account is authorized,
\* otherwise after the user approved account a in the wallet's prompt, which
\* also emits accountsChanged
RequestAccounts(k, a) ==
  /\ conn[k].pc = "eth_requestAccounts"
  /\ IF ethereum.account # NULL
     THEN /\ a = ethereum.account
          /\ conn' = [conn EXCEPT ![k].pc = "getNetwork"]
          /\ UNCHANGED <<ethereum, web3, toast, lastOk>>
     ELSE /\ ethereum' = [ethereum EXCEPT !.account = a]
          /\ LET r == HandleAccountsChanged(AccountsList(a), web3, toast)
             IN  /\ web3' = r.web3
                 /\ toast' = r.toast
                 /\ conn' = [conn EXCEPT ![k].pc = "getNetwork",
                                         !["event"] = IF r.called /\ k # "event" THEN r.call ELSE @]
          /\ lastOk' = NULL
  /\ UNCHANGED <<sw, settings, screen, fetch, loggedOut, localStorage, auth, deps, chk, reloadPending>>

\* provider.getNetwork() resolves
GetNetwork(k) ==
  /\ conn[k].pc = "getNetwork"
  /\ conn' = [conn EXCEPT ![k].pc = "getSigner", ![k].chainId = ethereum.chain]
  /\ web3' = SetNetwork(web3, ethereum.chain)
  /\ UNCHANGED <<sw, settings, screen, fetch, loggedOut, ethereum, localStorage, auth, deps, chk, reloadPending, toast, lastOk>>

\* provider.getSigner() resolves with the signer of the wallet's account
GetSigner(k) ==
  /\ conn[k].pc = "getSigner"
  /\ ethereum.account # NULL
  /\ conn' = [conn EXCEPT ![k].pc = "getAddress", ![k].signer = ethereum.account]
  /\ UNCHANGED <<sw, settings, screen, fetch, loggedOut, ethereum, localStorage, web3, auth, deps, chk, reloadPending, toast, lastOk>>

\* a connectWallet that acts as a toggle when the account is already connected
ConnectedToggle(w, c, sgn) ==
  IF w.address = sgn
  THEN [ClearAccount(w) EXCEPT !.isConnecting = FALSE]
  ELSE [SetAccount(w, c, sgn) EXCEPT !.isConnecting = FALSE]

\* the session a successful connectWallet leaves: lines 156-162, then finally
Connected(w, c, sgn) == [SetAccount(w, c, sgn) EXCEPT !.isConnecting = FALSE]

\* signer.getAddress() resolves; the rest of connectWallet runs and returns address
GetAddress(k) ==
  /\ conn[k].pc = "getAddress"
  /\ web3' = Connected(web3, conn[k].chainId, conn[k].signer)
  /\ conn' = [conn EXCEPT ![k] = [IdleCall EXCEPT !.ret = conn[k].signer]]
  /\ toast' = IF IsRequired(conn[k].chainId) THEN "Wallet connected!" ELSE "Wrong network"
  /\ lastOk' = IF conn[k].pre = NULL
                THEN NULL
                ELSE [web3 |-> web3',
                      listeners |-> <<ethereum.accountsChanged, ethereum.chainChanged>>,
                      n |-> IF lastOk = NULL THEN 1
                            ELSE IF lastOk.n < MaxRepeats THEN lastOk.n + 1 ELSE lastOk.n]
  /\ loggedOut' = (k # "user" /\ loggedOut)
  /\ UNCHANGED <<sw, settings, screen, fetch, ethereum, localStorage, auth, deps, chk, reloadPending>>

\* an awaited provider call of connectWallet rejects: catch, toast, rethrow, finally
ConnectFails(k) ==
  /\ conn[k].pc \in {"eth_requestAccounts", "getNetwork", "getSigner", "getAddress"}
  /\ web3' = [web3 EXCEPT !.isConnecting = FALSE]
  /\ conn' = [conn EXCEPT ![k] = IdleCall]
  /\ toast' = "Connection failed"
  /\ lastOk' = NULL
  /\ UNCHANGED <<sw, settings, screen, fetch, loggedOut, ethereum, localStorage, auth, deps, chk, reloadPending>>

\* --------------------------------------------------------------- chainChanged
\* a handleChainChanged that forgets setIsCorrectNetwork
HandleChainChangedNoFlag(chainIdHex, w) == [w EXCEPT !.chainId = ParseInt16(chainIdHex)]

\* handleChainChanged(chainIdHex): the session after lines 114-116
HandleChainChanged(chainIdHex, w) ==
  LET newChainId == ParseInt16(chainIdHex)
  IN  [w EXCEPT !.chainId = newChainId, !.isCorrectNetwork = IsRequired(newChainId)]

\* the wallet switches to chain c and emits chainChanged; the handler ends
\* with window.location.reload()
ChainChanged(c) ==
  /\ ethereum.present
  /\ ethereum.chainChanged > 0
  /\ c # ethereum.chain
  /\ ethereum' = [ethereum EXCEPT !.chain = c]
  /\ web3' = HandleChainChanged(ToString16(c), web3)
  /\ reloadPending' = TRUE
  /\ conn' = Disturb(conn)
  /\ lastOk' = NULL
  /\ UNCHANGED <<sw, settings, screen, fetch, loggedOut, localStorage, auth, deps, chk, toast>>

\* ------------------------------------------------------------ disconnectWallet
\* Web3Provider.disconnectWallet()
DisconnectWallet ==
  /\ web3' = ClearAccount(web3)
  /\ toast' = "Wallet disconnected"
  /\ conn' = Disturb(conn)
  /\ lastOk' = NULL
  /\ UNCHANGED <<sw, settings, screen, fetch, loggedOut, ethereum, localStorage, auth, deps, chk, reloadPending>>

\* --------------------------------------------------------------- switchNetwork
\* error codes a wallet rejects wallet_switchEthereumChain with: the chain is
\* unknown to it, or anything else (here: the user rejected the request)
UNKNOWN_CHAIN == 4902
ErrorCodes == {UNKNOWN_CHAIN, 4001}

\* params of wallet_switchEthereumChain: `0x${REQUIRED_CHAIN_ID.toString(16)}`
SwitchRequest ==
  [method |-> "wallet_switchEthereumChain", chainId |-> ToString16(REQUIRED_CHAIN_ID)]

\* params of wallet_addEthereumChain: the fixed descriptor
AddRequest ==
  [method |-> "wallet_addEthereumChain", chainId |-> ToString16(REQUIRED_CHAIN_ID),
   chainName |-> "Open Campus Codex", symbol |-> "OCC"]

\* a catch block that falls back to wallet_addEthereumChain on every error
OnSwitchErrorAlwaysAdds(code, s, t) ==
  [sw |-> [s EXCEPT !.pc = "add", !.requests = Append(@, AddRequest)], toast |-> t]

\* catch (switchError): the call and the toast after the switch was rejected
OnSwitchError(code, s, t) ==
  IF code = UNKNOWN_CHAIN
  THEN [sw |-> [s EXCEPT !.pc = "add", !.requests = Append(@, AddRequest)], toast |-> t]
  ELSE [sw |-> [s EXCEPT !.pc = "idle", !.result = "failed"], toast |-> "Network switch failed"]

\* the wallet moves to chain c; a registered chainChanged listener runs
\* handleChainChanged, which ends with window.location.reload()
WalletMovesTo(c) ==
  /\ ethereum' = [ethereum EXCEPT !.chain = c]
  /\ IF c # ethereum.chain /\ ethereum.chainChanged > 0
     THEN /\ web3' = HandleChainChanged(ToString16(c), web3)
          /\ reloadPending' = TRUE
          /\ conn' = Disturb(conn)
     ELSE UNCHANGED <<web3, reloadPending, conn>>

\* a screen calls switchNetwork(): up to the first await
SwitchNetwork ==
  /\ sw.pc = "idle"
  /\ IF ~ethereum.present
     THEN /\ toast' = "No provider found"
          /\ sw' = [pc |-> "idle", requests |-> <<>>, result |-> "noProvider"]
     ELSE /\ sw' = [pc |-> "switch", requests |-> <<SwitchRequest>>, result |-> "none"]
          /\ UNCHANGED toast
  /\ lastOk' = NULL
  /\ UNCHANGED <<settings, screen, fetch, loggedOut, ethereum, localStorage, web3, auth, deps, chk, conn, reloadPending>>

\* wallet_switchEthereumChain resolves: the wallet is on the required chain
SwitchResolves ==
  /\ sw.pc = "switch"
  /\ WalletMovesTo(REQUIRED_CHAIN_ID)
  /\ sw' = [sw EXCEPT !.pc = "idle", !.result = "switched"]
  /\ lastOk' = NULL
  /\ UNCHANGED <<settings, screen, fetch, loggedOut, localStorage, auth, deps, chk, toast>>

\* wallet_switchEthereumChain rejects with an error code
SwitchRejects(code) ==
  /\ sw.pc = "switch"
  /\ code = UNKNOWN_CHAIN => ethereum.chain # REQUIRED_CHAIN_ID
  /\ LET r == OnSwitchError(code, sw, toast)
     IN  /\ sw' = r.sw
         /\ toast' = r.toast
  /\ lastOk' = NULL
  /\ UNCHANGED <<settings, screen, fetch, loggedOut, ethereum, localStorage, web3, auth, deps, chk, conn, reloadPending>>

\* wallet_addEthereumChain resolves: the wallet knows the chain now, and it
\* may or may not have moved to it; switchNetwork ends here
AddResolves ==
  /\ sw.pc = "add"
  /\ \E c \in {ethereum.chain, REQUIRED_CHAIN_ID} : WalletMovesTo(c)
  /\ sw' = [sw EXCEPT !.pc = "idle", !.result = "added"]
  /\ lastOk' = NULL
  /\ UNCHANGED <<settings, screen, fetch, loggedOut, localStorage, auth, deps, chk, toast>>

\* wallet_addEthereumChain rejects: catch (addError)
AddRejects ==
  /\ sw.pc = "add"
  /\ sw' = [sw EXCEPT !.pc = "idle", !.result = "failed"]
  /\ toast' = "Network switch failed"
  /\ lastOk' = NULL
  /\ UNCHANGED <<settings, screen, fetch, loggedOut, ethereum, localStorage, web3, auth, deps, chk, conn, reloadPending>>

\* -------------------------------------------------------------- AuthProvider
\* a linkWallet that keeps a wallet address the user already has
LinkWalletKeepsFirst(u, item, walletAddress, t) ==
  IF u = NULL
  THEN [user |-> u, item |-> item, toast |-> "Wallet linking failed", threw |-> TRUE]
  ELSE LET updatedUser == IF u.walletAddress = NULL
                          THEN [u EXCEPT !.walletAddress = walletAddress] ELSE u
       IN  [user |-> updatedUser, item |-> JSONStringify(updatedUser),
            toast |-> "Wallet linked", threw |-> FALSE]

\* linkWallet(walletAddress) of a render whose user is u: the user, the
\* stored item and the toast it leaves; it throws when there is no user
LinkWallet(u, item, walletAddress, t) ==
  IF u = NULL
  THEN [user |-> u, item |-> item, toast |-> "Wallet linking failed", threw |-> TRUE]
  ELSE LET updatedUser == [u EXCEPT !.walletAddress = walletAddress]
       IN  [user |-> updatedUser, item |-> JSONStringify(updatedUser),
            toast |-> "Wallet linked", threw |-> FALSE]

\* an effect that synthesizes an identity and never relinks a stored one
HandleWalletConnectionNoRelink ==
  /\ deps # [address |-> web3.address, isLoading |-> auth.isLoading]
  /\ deps' = [address |-> web3.address, isLoading |-> auth.isLoading]
  /\ IF web3.address # NULL /\ ~auth.isLoading /\ localStorage = NULL
     THEN LET newUser == NewWalletUser(web3.address)
          IN  /\ auth' = [auth EXCEPT !.user = newUser]
              /\ localStorage' = JSONStringify(newUser)
              /\ toast' = "Wallet account created"
     ELSE UNCHANGED <<auth, localStorage, toast>>
  /\ UNCHANGED <<sw, settings, screen, fetch, loggedOut, ethereum, web3, chk, conn, reloadPending, lastOk>>

\* the effect on [address, isLoading]: handleWalletConnection()
HandleWalletConnection ==
  /\ deps # [address |-> web3.address, isLoading |-> auth.isLoading]
  /\ deps' = [address |-> web3.address, isLoading |-> auth.isLoading]
  /\ IF web3.address # NULL /\ ~auth.isLoading
     THEN IF localStorage # NULL
          THEN LET parsedUser == JSONParse(localStorage)
               IN  IF parsedUser.walletAddress = NULL \/ parsedUser.walletAddress # web3.address
                   THEN LET r == LinkWallet(auth.user, localStorage, web3.address, toast)
                        IN  /\ auth' = [auth EXCEPT !.user = r.user]
                            /\ localStorage' = r.item
                            /\ toast' = r.toast
                   ELSE UNCHANGED <<auth, localStorage, toast>>
          ELSE LET newUser == NewWalletUser(web3.address)
               IN  /\ auth' = [auth EXCEPT !.user = newUser]
                   /\ localStorage' = JSONStringify(newUser)
                   /\ toast' = "Wallet account created"
     ELSE UNCHANGED <<auth, localStorage, toast>>
  /\ UNCHANGED <<sw, settings, screen, fetch, loggedOut, ethereum, web3, chk, conn, reloadPending, lastOk>>

\* the identity AuthProvider.disconnectWallet() leaves: lines 231-234
Unlinked(u) == [u EXCEPT !.walletAddress = NULL]

\* an unlink that does not call disconnectWeb3Wallet()
UnlinkSessionKept(w) == w

\* the session AuthProvider.disconnectWallet() leaves: line 228
UnlinkSession(w) == ClearAccount(w)

\* AuthProvider.disconnectWallet(), the identity layer's unlink(); the awaited
\* disconnectWeb3Wallet() has no await of its own, so the call is one task
AuthDisconnectWallet ==
  /\ IF auth.user = NULL
     THEN UNCHANGED <<web3, auth, localStorage, toast, conn, lastOk>>
     ELSE /\ web3' = UnlinkSession(web3)
          /\ auth' = [auth EXCEPT !.user = Unlinked(auth.user)]
          /\ localStorage' = JSONStringify(Unlinked(auth.user))
          /\ toast' = "Wallet disconnected"
          /\ conn' = Disturb(conn)
          /\ lastOk' = NULL
  /\ UNCHANGED <<sw, settings, screen, fetch, loggedOut, ethereum, deps, chk, reloadPending>>

\* login(email, password); nothing is awaited, isLoading is true only inside
\* the task
Login(email, password) ==
  /\ toast' = "Login successful"
  /\ \E id \in RandomIds :
       LET user == LoginUser(email, id, web3.address)
       IN  /\ auth' = [user |-> user, isLoading |-> FALSE]
           /\ localStorage' = JSONStringify(user)
  /\ loggedOut' = FALSE
  /\ UNCHANGED <<sw, settings, screen, fetch, ethereum, web3, deps, chk, conn, reloadPending, lastOk>>

\* register(userData)
Register(userData) ==
  /\ toast' = "Registration successful"
  /\ \E id \in RandomIds :
       LET user == RegisterUser(userData, id, web3.address)
       IN  /\ auth' = [user |-> user, isLoading |-> FALSE]
           /\ localStorage' = JSONStringify(user)
  /\ loggedOut' = FALSE
  /\ UNCHANGED <<sw, settings, screen, fetch, ethereum, web3, deps, chk, conn, reloadPending, lastOk>>

\* updateAccountType(accountType) of a render whose user is u: the user, the
\* stored item and the toast it leaves; it throws when there is no user
UpdateAccountType(u, item, accountType) ==
  IF u = NULL
  THEN [user |-> u, item |-> item, toast |-> "Update failed", threw |-> TRUE]
  ELSE LET updatedUser == [u EXCEPT !.accountType = accountType]
       IN  [user |-> updatedUser, item |-> JSONStringify(updatedUser),
            toast |-> "Account type updated", threw |-> FALSE]

\* the account types the forms offer
AccountTypes == {"student", "institution"}

\* onSubmit(values) of the settings screen: updateAccountType when the type
\* differs from the user's, then the toast
SettingsOnSubmit(accountType) ==
  /\ IF auth.user # NULL THEN accountType # auth.user.accountType ELSE TRUE
  /\ LET r == UpdateAccountType(auth.user, localStorage, accountType)
     IN  /\ toast' = IF r.threw THEN "Update failed" ELSE "Settings updated"
         /\ auth' = [auth EXCEPT !.user = r.user]
         /\ localStorage' = r.item
  /\ UNCHANGED <<sw, settings, screen, fetch, loggedOut, ethereum, web3, deps, chk, conn, reloadPending, lastOk>>

\* what the wallet tab of the register screen submits: a name and an account type
WalletValues == {[name |-> userData.name, accountType |-> userData.accountType] :
                   userData \in {d \in UserDatas : d.email = NULL}}

\* the data onWalletSubmit passes to register: no email
WalletUserData(values) ==
  [name |-> values.name, email |-> NULL, accountType |-> values.accountType]

\* onWalletSubmit(values) of the register screen: register(...) and then
\* updateAccountType(...), both of the render the form was submitted from,
\* whose user is auth.user
OnWalletSubmit(values) ==
  /\ IF web3.address = NULL
     THEN /\ toast' = "Wallet not connected"
          /\ UNCHANGED <<auth, localStorage, loggedOut>>
     ELSE \E id \in RandomIds :
            LET user == RegisterUser(WalletUserData(values), id, web3.address)
                r == UpdateAccountType(auth.user, JSONStringify(user), values.accountType)
            IN  /\ toast' = IF r.threw THEN "Registration failed" ELSE "Account created!"
                /\ auth' = [user |-> IF r.threw THEN user ELSE r.user, isLoading |-> FALSE]
                /\ localStorage' = r.item
                /\ loggedOut' = FALSE
  /\ UNCHANGED <<sw, settings, screen, fetch, ethereum, web3, deps, chk, conn, reloadPending, lastOk>>

\* a linkWallet that makes up a user when there is none
LinkWalletCallCreates(walletAddress) ==
  /\ LET updatedUser == IF auth.user = NULL THEN NewWalletUser(walletAddress)
                        ELSE [auth.user EXCEPT !.walletAddress = walletAddress]
     IN  /\ auth' = [auth EXCEPT !.user = updatedUser]
         /\ localStorage' = JSONStringify(updatedUser)
  /\ toast' = "Wallet linked"
  /\ UNCHANGED <<sw, settings, screen, fetch, loggedOut, ethereum, web3, deps, chk, conn, reloadPending, lastOk>>

\* a screen calls linkWallet(walletAddress) of the latest render
LinkWalletCall(walletAddress) ==
  /\ LET r == LinkWallet(auth.user, localStorage, walletAddress, toast)
     IN  /\ auth' = [auth EXCEPT !.user = r.user]
         /\ localStorage' = r.item
         /\ toast' = r.toast
  /\ UNCHANGED <<sw, settings, screen, fetch, loggedOut, ethereum, web3, deps, chk, conn, reloadPending, lastOk>>

\* a logout that never asks the session to disconnect
LogoutSessionKept(u, w) == w

\* the session logout() leaves: `if (user?.walletAddress) await disconnectWeb3Wallet()`
LogoutSession(u, w) ==
  IF u # NULL /\ u.walletAddress # NULL THEN ClearAccount(w) ELSE w

\* logout(); the awaited disconnectWeb3Wallet() has no await of its own
Logout ==
  /\ web3' = LogoutSession(auth.user, web3)
  /\ auth' = [auth EXCEPT !.user = NULL]
  /\ localStorage' = NULL
  /\ toast' = "Logged out"
  /\ conn' = Disturb(conn)
  /\ lastOk' = NULL
  /\ loggedOut' = TRUE
  /\ UNCHANGED <<sw, settings, screen, fetch, ethereum, deps, chk, reloadPending>>

\* the settings screen's handleConnectWallet(): up to the first await of the
\* connectWallet() it calls; the button shows while the user has no wallet
\* and is disabled while isConnecting
HandleConnectWallet ==
  /\ settings.pc = "idle"
  /\ conn["user"].pc = "idle"
  /\ ~web3.isConnecting
  /\ IF auth.user = NULL THEN TRUE ELSE auth.user.walletAddress = NULL
  /\ LET r == ConnectWalletEntry(web3.provider, web3, toast)
     IN  /\ web3' = r.web3
         /\ toast' = r.toast
         /\ conn' = [conn EXCEPT !["user"] = r.call]
  /\ settings' = IF web3.provider = NULL THEN IdleSettings
                 ELSE [pc |-> "connectWallet", user |-> auth.user]
  /\ lastOk' = IF web3.provider = NULL THEN NULL ELSE lastOk
  /\ UNCHANGED <<sw, screen, fetch, loggedOut, ethereum, localStorage, auth, deps, chk, reloadPending>>

\* the awaited connectWallet() has returned or thrown: the rest of
\* handleConnectWallet runs, with the user and linkWallet of its own render
HandleConnectWalletResumes ==
  /\ settings.pc = "connectWallet"
  /\ conn["user"].pc = "idle"
  /\ settings' = IdleSettings
  /\ IF conn["user"].ret = NULL
     THEN /\ toast' = "Connection failed"
          /\ UNCHANGED <<auth, localStorage>>
     ELSE IF settings.user = NULL
          THEN UNCHANGED <<auth, localStorage, toast>>
          ELSE LET r == LinkWallet(settings.user, localStorage, conn["user"].ret, toast)
               IN  /\ auth' = [auth EXCEPT !.user = r.user]
                   /\ localStorage' = r.item
                   /\ toast' = r.toast
  /\ UNCHANGED <<sw, screen, fetch, loggedOut, ethereum, web3, deps, chk, conn, reloadPending, lastOk>>

\* the wallet-connection effect has run for the address on screen
EffectsFlushed == deps = [address |-> web3.address, isLoading |-> auth.isLoading]

\* handleConnectWallet resumes in a microtask of the task that settled connectWallet()
Resuming == settings.pc = "connectWallet" /\ conn["user"].pc = "idle"

\* a new task starts: nothing is left of the previous one, and no reload
\* was requested
Settled == EffectsFlushed /\ ~Resuming /\ ~reloadPending

\* ---------------------------------------------------- credentials screens
\* The chain's contents.  The k-th account: the first owns MaxTokens tokens,
\* the second none, every further one k - 2.
AccountIndex(a) == CHOOSE k \in 1..NumAccounts : AddressOf(k) = a

\* Number(await contract.balanceOf(address))
BalanceOf(a) == IF AccountIndex(a) = 1 THEN MaxTokens ELSE AccountIndex(a) - 2

\* Number(await contract.tokenOfOwnerByIndex(address, i))
TokenOfOwnerByIndex(a, i) == 10 * AccountIndex(a) + i + 1

\* the values the effect's dependency array [contract, address, isCorrectNetwork] holds
ScreenDeps(w) ==
  [contract |-> w.contract, address |-> w.address, isCorrectNetwork |-> w.isCorrectNetwork]

\* a fetchCredentials call started by the effect, suspended at balanceOf
StartFetch(d) ==
  [IdleFetch EXCEPT !.pc = "balanceOf", !.address = d.address, !.contract = d.contract]

\* fetchCredentials() gets past its three early returns
CanFetch(d) == d.address # NULL /\ d.isCorrectNetwork /\ d.contract # NULL

\* the effect of a credentials screen runs after a render that changed one of
\* its dependencies: fetchCredentials() returns early without an address, off
\* the required network or without a contract, and otherwise runs up to
\* contract.balanceOf(address)
FetchEffect ==
  LET d == ScreenDeps(web3) IN
  /\ screen.mounted
  /\ screen.deps # d
  /\ IF ~CanFetch(d)
     THEN /\ screen' = [screen EXCEPT !.deps = d]
          /\ UNCHANGED fetch
     ELSE /\ screen' = [screen EXCEPT !.deps = d, !.error = FALSE]
          /\ IF fetch["later"].pc = "idle"
             THEN fetch' = [fetch EXCEPT !["later"] = StartFetch(d)]
             ELSE /\ fetch["earlier"].pc = "idle"
                  /\ fetch' = [fetch EXCEPT !["earlier"] = fetch["later"],
                                            !["later"] = StartFetch(d)]
  /\ UNCHANGED <<ethereum, localStorage, web3, auth, deps, chk, conn, reloadPending,
                 toast, sw, settings, loggedOut, lastOk>>

\* the loop of fetchCredentials after the item at index f.i was handled: the
\* next item's tokenOfOwnerByIndex, or the end of the loop
AfterItem(f, list, skp) ==
  LET g == [f EXCEPT !.credentialsList = list, !.skipped = skp, !.i = f.i + 1, !.tokenId = 0]
  IN  IF g.i < g.count THEN [g EXCEPT !.pc = "tokenOfOwnerByIndex"]
                       ELSE [g EXCEPT !.pc = "done"]

\* setCredentials(credentialsList) and the finally block when the loop has
\* ended; otherwise the call stays suspended at its next contract call
Continue(s, g) ==
  IF g.pc = "done"
  THEN /\ fetch' = [fetch EXCEPT ![s] = IdleFetch]
       /\ screen' = [screen EXCEPT !.credentials = g.credentialsList,
                                   !.shownFor = g.address, !.skipped = g.skipped]
  ELSE /\ fetch' = [fetch EXCEPT ![s] = g]
       /\ UNCHANGED screen

\* contract.balanceOf(address) resolves
FetchBalanceOf(s) ==
  /\ fetch[s].pc = "balanceOf"
  /\ LET count == BalanceOf(fetch[s].address) IN
     IF count = 0
     THEN Continue(s, [fetch[s] EXCEPT !.pc = "done"])
     ELSE Continue(s, [fetch[s] EXCEPT !.pc = "tokenOfOwnerByIndex", !.count = count])
  /\ UNCHANGED <<ethereum, localStorage, web3, auth, deps, chk, conn, reloadPending,
                 toast, sw, settings, loggedOut, lastOk>>

\* contract.balanceOf(address) rejects: the outer catch
FetchBalanceFails(s) ==
  /\ fetch[s].pc = "balanceOf"
  /\ fetch' = [fetch EXCEPT ![s] = IdleFetch]
  /\ screen' = [screen EXCEPT !.error = TRUE]
  /\ UNCHANGED <<ethereum, localStorage, web3, auth, deps, chk, conn, reloadPending,
                 toast, sw, settings, loggedOut, lastOk>>

\* contract.tokenOfOwnerByIndex(address, i) resolves
FetchTokenId(s) ==
  /\ fetch[s].pc = "tokenOfOwnerByIndex"
  /\ fetch' = [fetch EXCEPT ![s].pc = "verifyCertificate",
                            ![s].tokenId = TokenOfOwnerByIndex(fetch[s].address, fetch[s].i)]
  /\ UNCHANGED <<ethereum, localStorage, web3, auth, deps, chk, conn, reloadPending,
                 toast, sw, settings, screen, loggedOut, lastOk>>

\* contract.verifyCertificate(tokenId) resolves: credentialsList.push
FetchVerify(s) ==
  /\ fetch[s].pc = "verifyCertificate"
  /\ Continue(s, AfterItem(fetch[s], Append(fetch[s].credentialsList, fetch[s].tokenId),
                           fetch[s].skipped))
  /\ UNCHANGED <<ethereum, localStorage, web3, auth, deps, chk, conn, reloadPending,
                 toast, sw, settings, loggedOut, lastOk>>

\* an inner catch that gives up the rest of the batch
OnItemErrorAborts(f) == [f EXCEPT !.skipped = f.skipped \cup {f.i}, !.pc = "done"]

\* the inner catch: the error is logged, nothing is pushed for index f.i
OnItemError(f) == AfterItem(f, f.credentialsList, f.skipped \cup {f.i})

\* tokenOfOwnerByIndex or verifyCertificate of the item at index i rejects
FetchItemFails(s) ==
  /\ fetch[s].pc \in {"tokenOfOwnerByIndex", "verifyCertificate"}
  /\ Continue(s, OnItemError(fetch[s]))
  /\ UNCHANGED <<ethereum, localStorage, web3, auth, deps, chk, conn, reloadPending,
                 toast, sw, settings, loggedOut, lastOk>>

\* the user navigates from a credentials screen to a screen without a list,
\* such as the settings: the screen unmounts, and what its fetches still do
\* is shown nowhere
LeaveScreen ==
  /\ screen.mounted
  /\ screen' = [MountScreen EXCEPT !.mounted = FALSE]
  /\ fetch' = [s \in FetchCalls |-> IdleFetch]
  /\ UNCHANGED <<ethereum, localStorage, web3, auth, deps, chk, conn, reloadPending,
                 toast, sw, settings, loggedOut, lastOk>>

\* the user navigates to a credentials screen: it mounts and its effect runs
\* with the session as it is
OpenScreen ==
  LET d == ScreenDeps(web3) IN
  /\ ~screen.mounted
  /\ screen' = [MountScreen EXCEPT !.deps = d]
  /\ fetch' = [s \in FetchCalls |->
                 IF s = "later" /\ CanFetch(d) THEN StartFetch(d) ELSE IdleFetch]
  /\ UNCHANGED <<ethereum, localStorage, web3, auth, deps, chk, conn, reloadPending,
                 toast, sw, settings, loggedOut, lastOk>>

\* the screen's effect has run for the session the last render showed
ScreenFlushed == ~screen.mounted \/ screen.deps = ScreenDeps(web3)

\* ------------------------------------------------------------ specification
\* The wallet session: the mount effect, connectWallet, disconnectWallet and
\* the wallet's events.  The identity layer reaches the session only through
\* connectWallet() and disconnectWallet(), which are free to happen here.
Next ==
  \/ ReloadCompletes
  \/ UserReload
  \/ ChkGetNetwork
  \/ ChkListAccounts
  \/ ChkGetSigner
  \/ ChkGetAddress
  \/ ChkFails
  \/ \E a \in Addresses \cup {NULL} : AccountsChanged(a)
  \/ \E c \in Chains : ChainChanged(c)
  \/ ConnectWallet
  \/ \E k \in Callers, a \in Addresses : RequestAccounts(k, a)
  \/ \E k \in Callers : GetNetwork(k)
  \/ \E k \in Callers : GetSigner(k)
  \/ \E k \in Callers : GetAddress(k)
  \/ \E k \in Callers : ConnectFails(k)
  \/ DisconnectWallet

Spec == Init /\ [][Next]_vars

\* The identity layer over a session that is driven by the mount effect and
\* the wallet's account events, on a wallet that stays on its chain.  The
\* operations of the identity layer are free to be called at any time, and
\* the effect may run late.
IdentityNext ==
  \/ UserReload
  \/ ChkGetNetwork
  \/ ChkListAccounts
  \/ ChkGetSigner
  \/ ChkGetAddress
  \/ ChkFails
  \/ \E a \in Addresses \cup {NULL} : AccountsChanged(a)
  \/ HandleWalletConnection
  \/ AuthDisconnectWallet
  \/ \E email \in Emails, password \in Passwords : Login(email, password)
  \/ \E userData \in UserDatas : Register(userData)
  \/ \E a \in Addresses : LinkWalletCall(a)
  \/ Logout

IdentitySpec == Init /\ [][IdentityNext]_vars

\* The screens as they call the two providers: login and register forms, the
\* account menu (logout, unlink), connectWallet from the login and register
\* screens and from the settings screen.  A task's continuation and the
\* effect of the render it caused run before the next task starts, and a
\* requested reload happens at once.  One login and one registration form
\* input each: the address agreement does not read the other fields.
SyncEmails == {EmailSchool}
SyncUserDatas == {userData \in UserDatas : userData.email = NULL}

SyncNext ==
  \/ HandleConnectWalletResumes
  \/ ~Resuming /\ HandleWalletConnection
  \/ ReloadCompletes
  \/ Settled /\ UserReload
  \/ Settled /\ ChkGetNetwork
  \/ Settled /\ ChkListAccounts
  \/ Settled /\ ChkGetSigner
  \/ Settled /\ ChkGetAddress
  \/ Settled /\ ChkFails
  \/ Settled /\ \E a \in Addresses \cup {NULL} : AccountsChanged(a)
  \/ Settled /\ \E c \in Chains : ChainChanged(c)
  \/ Settled /\ ConnectWallet
  \/ Settled /\ HandleConnectWallet
  \/ Settled /\ \E a \in Addresses : RequestAccounts("user", a)
  \/ Settled /\ GetNetwork("user")
  \/ Settled /\ GetSigner("user")
  \/ Settled /\ GetAddress("user")
  \/ Settled /\ ConnectFails("user")
  \/ Settled /\ \E email \in SyncEmails, password \in Passwords : Login(email, password)
  \/ Settled /\ \E userData \in SyncUserDatas : Register(userData)
  \/ Settled /\ AuthDisconnectWallet
  \/ Settled /\ Logout

SyncSpec == Init /\ [][SyncNext]_vars

\* switchNetwork over a session that is driven by the mount effect and the
\* wallet's events.
SwitchNext ==
  \/ ReloadCompletes
  \/ UserReload
  \/ ChkGetNetwork
  \/ ChkListAccounts
  \/ ChkGetSigner
  \/ ChkGetAddress
  \/ ChkFails
  \/ \E a \in Addresses \cup {NULL} : AccountsChanged(a)
  \/ \E c \in Chains : ChainChanged(c)
  \/ SwitchNetwork
  \/ SwitchResolves
  \/ \E code \in ErrorCodes : SwitchRejects(code)
  \/ AddResolves
  \/ AddRejects

SwitchSpec == Init /\ [][SwitchNext]_vars

\* The identity's record through its operations as the screens call them:
\* the session check at a reload, the silent connection and the effect that
\* follows it, the login form, both tabs of the register screen, the
\* settings form, linkWallet, the account menu.  The effect of a render runs
\* before the next task starts.
ProfileNext ==
  \/ HandleWalletConnection
  \/ EffectsFlushed /\ UserReload
  \/ EffectsFlushed /\ ChkGetNetwork
  \/ EffectsFlushed /\ ChkListAccounts
  \/ EffectsFlushed /\ ChkGetSigner
  \/ EffectsFlushed /\ ChkGetAddress
  \/ EffectsFlushed /\ \E a \in Addresses \cup {NULL} : AccountsChanged(a)
  \/ EffectsFlushed /\ \E email \in SyncEmails, password \in Passwords : Login(email, password)
  \/ EffectsFlushed /\ \E userData \in UserDatas : Register(userData)
  \/ EffectsFlushed /\ \E values \in WalletValues : OnWalletSubmit(values)
  \/ EffectsFlushed /\ \E accountType \in AccountTypes : SettingsOnSubmit(accountType)
  \/ EffectsFlushed /\ \E a \in Addresses : LinkWalletCall(a)
  \/ EffectsFlushed /\ AuthDisconnectWallet
  \/ EffectsFlushed /\ Logout

ProfileSpec == Init /\ [][ProfileNext]_vars

\* A credentials screen over a wallet session: the silent connection at
\* mount, the wallet's accountsChanged events, connectWallet called on a
\* screen that offers it, disconnectWallet, navigation, and the screen's
\* fetches.  The effect runs right after the render that changed its
\* dependencies, and the user acts after the session check at mount.
\* the session check at mount is over and the screen's effect has run
Ready == chk.pc = "done" /\ ScreenFlushed

FetchNext ==
  \/ FetchEffect
  \/ \E s \in FetchCalls : FetchBalanceOf(s)
  \/ \E s \in FetchCalls : FetchBalanceFails(s)
  \/ \E s \in FetchCalls : FetchTokenId(s)
  \/ \E s \in FetchCalls : FetchVerify(s)
  \/ \E s \in FetchCalls : FetchItemFails(s)
  \/ ScreenFlushed /\ ChkGetNetwork
  \/ ScreenFlushed /\ ChkListAccounts
  \/ ScreenFlushed /\ ChkGetSigner
  \/ ScreenFlushed /\ ChkGetAddress
  \/ Ready /\ \E a \in Addresses \cup {NULL} : AccountsChanged(a)
  \/ Ready /\ ~screen.mounted /\ ConnectWallet
  \/ Ready /\ \E a \in Addresses : RequestAccounts("user", a)
  \/ Ready /\ GetNetwork("user")
  \/ Ready /\ GetSigner("user")
  \/ Ready /\ GetAddress("user")
  \/ Ready /\ DisconnectWallet
  \/ Ready /\ LeaveScreen
  \/ Ready /\ OpenScreen

FetchSpec == Init /\ [][FetchNext]_vars

\* ------------------------------------------------------------------ claims

\* C1: in every reachable state the contract handle is non-null if and only
\* if chainId is the required chain and address is non-null.
C1_NetworkGating ==
  (web3.contract # NULL) <=> (web3.chainId = REQUIRED_CHAIN_ID /\ web3.address # NULL)

\* C2: the step that handles a chain-changed event leaves the contract handle
\* null, before the reload it requests completes.
C2_ChainChangedReset ==
  [][(\E c \in Chains : ChainChanged(c)) => web3'.contract = NULL]_vars

\* C3: in every reachable state a non-null address comes with a signer, and a
\* non-null contract handle comes with a signer and the required chain.
C3_HandleInvariants ==
  /\ web3.address # NULL => web3.signer # NULL
  /\ web3.contract # NULL => (web3.signer # NULL /\ web3.chainId = REQUIRED_CHAIN_ID)

\* C4: when accounts-changed arrives with a non-empty list and the handler has
\* no work left in flight, address and signer are those of the new account.
C4_AccountsChangedReconnects ==
  [][\A a \in Addresses :
       (AccountsChanged(a) /\ conn'["event"].pc = "idle")
         => (web3'.address = a /\ web3'.signer = a)]_vars

\* C5: a connect that fails (no provider, rejected request, or a later
\* provider call failing) leaves address, signer, contract, chainId and
\* networkName as they were when it was called.
C5_ConnectFailureKeepsState ==
  [][/\ \A k \in Callers :
          (ConnectFails(k) /\ conn[k].pre # NULL) => Fields(web3') = conn[k].pre
     /\ (ConnectWallet /\ web3.provider = NULL)
          => (Fields(web3') = Fields(web3) /\ toast' = "No provider found")]_vars

\* C6: a connect that succeeds, nothing else having written the session since
\* it was called, leaves the wallet's account as address, the wallet's chain
\* as chainId and networkName, the contract bound exactly on the required
\* chain, and returns the address.
C6_ConnectSuccess ==
  [][\A k \in Callers :
       (GetAddress(k) /\ conn[k].pre # NULL)
         => /\ web3'.address = ethereum.account
            /\ web3'.chainId = ethereum.chain
            /\ web3'.networkName = NetworkName(ethereum.chain)
            /\ (web3'.contract # NULL) <=> (web3'.chainId = REQUIRED_CHAIN_ID)
            /\ conn'[k].ret = web3'.address]_vars

\* C7: a connect that succeeds right after a successful connect, with nothing
\* else in between, leaves the session exactly as the first one left it, and
\* one accounts-changed and one chain-changed listener registered.
C7_IdempotentConnect ==
  [][\A k \in Callers :
       (GetAddress(k) /\ lastOk # NULL)
         => /\ web3' = lastOk.web3
            /\ <<ethereum'.accountsChanged, ethereum'.chainChanged>> = lastOk.listeners
            /\ ethereum'.accountsChanged = 1
            /\ ethereum'.chainChanged = 1]_vars

\* a second successful connect in a row has completed
C7_Witness == lastOk # NULL /\ lastOk.n >= 2 /\ web3.address # NULL

\* C8 as stated: unlink clears and persists walletAddress and leaves the
\* session's address, signer and contract as they were.
C8_UnlinkIndependence ==
  [][AuthDisconnectWallet
       => /\ web3'.address = web3.address
          /\ web3'.signer = web3.signer
          /\ web3'.contract = web3.contract
          /\ auth.user # NULL
               => (auth'.user.walletAddress = NULL /\ localStorage' = JSONStringify(auth'.user))]_vars

\* C8 amended: unlink on an existing identity clears walletAddress, persists
\* the record without it, and disconnects the session (address, signer and
\* contract become null, chainId and networkName stay); without an identity
\* it changes nothing.
C8_UnlinkDisconnects ==
  [][AuthDisconnectWallet
       => IF auth.user = NULL
          THEN UNCHANGED <<web3, auth, localStorage>>
          ELSE /\ auth'.user = [auth.user EXCEPT !.walletAddress = NULL]
               /\ JSONParse(localStorage') = auth'.user
               /\ "walletAddress" \notin DOMAIN localStorage'
               /\ web3'.address = NULL /\ web3'.signer = NULL /\ web3'.contract = NULL
               /\ web3'.chainId = web3.chainId /\ web3'.networkName = web3.networkName]_vars

\* an identity synthesized for a connected wallet has been unlinked
C8_Witness ==
  /\ auth.user # NULL
  /\ auth.user.walletAddress = NULL
  /\ localStorage # NULL
  /\ web3.address = NULL
  /\ web3.chainId # NULL_CHAIN
  /\ toast = "Wallet disconnected"

\* C9: handling chain-changed sets chainId, networkName and isCorrectNetwork
\* to the new chain and requests the reload.
C9_ChainChangedUpdates ==
  [][\A c \in Chains :
       ChainChanged(c)
         => /\ web3'.chainId = c
            /\ web3'.networkName = NetworkName(c)
            /\ web3'.isCorrectNetwork = (c = REQUIRED_CHAIN_ID)
            /\ reloadPending']_vars

\* C10: in every reachable state the stored isCorrectNetwork equals
\* (chainId == REQUIRED_CHAIN_ID).
C10_DerivedFlag == web3.isCorrectNetwork = (web3.chainId = REQUIRED_CHAIN_ID)

\* the flag was set by handleChainChanged for the required chain
C10_Witness == reloadPending /\ web3.isCorrectNetwork /\ web3.networkName = "mainnet"

\* C1 and C3 outside the window between handleChainChanged and the reload
NoReloadPendingGating == ~reloadPending => (C1_NetworkGating /\ C3_HandleInvariants)

\* C11: disconnectWallet() sets signer, address and contract to null and
\* changes nothing else: provider, chainId, networkName, the other session
\* fields and the wallet's own authorization stay as they were.
C11_DisconnectFrame ==
  [][DisconnectWallet =>
       /\ web3'.signer = NULL /\ web3'.address = NULL /\ web3'.contract = NULL
       /\ web3'.provider = web3.provider
       /\ web3'.chainId = web3.chainId
       /\ web3'.networkName = web3.networkName
       /\ web3'.isCorrectNetwork = web3.isCorrectNetwork
       /\ web3'.isConnecting = web3.isConnecting
       /\ ethereum' = ethereum]_vars

\* a disconnected session that still knows its network, over a wallet that
\* still has the account authorized
C11_Witness ==
  /\ toast = "Wallet disconnected"
  /\ ethereum.account # NULL
  /\ conn["user"].ret = ethereum.account
  /\ web3.address = NULL /\ web3.signer = NULL /\ web3.contract = NULL
  /\ web3.chainId = REQUIRED_CHAIN_ID /\ web3.networkName # NULL_NAME

\* C12: accountsChanged with no accounts is treated as a disconnect:
\* address, signer and contract end null, chainId and networkName keep
\* their values, and a notification is shown.
C12_AccountsEmptied ==
  [][AccountsChanged(NULL) =>
       /\ web3'.address = NULL /\ web3'.signer = NULL /\ web3'.contract = NULL
       /\ web3'.chainId = web3.chainId
       /\ web3'.networkName = web3.networkName
       /\ toast' = "Wallet disconnected"]_vars

\* the wallet lost the account a connect had returned, the session is
\* cleared and still knows its network
C12_Witness ==
  /\ ethereum.account = NULL
  /\ conn["user"].ret # NULL
  /\ toast = "Wallet disconnected"
  /\ web3.address = NULL /\ web3.signer = NULL /\ web3.contract = NULL
  /\ web3.chainId # NULL_CHAIN /\ web3.networkName # NULL_NAME

\* C13: when the switch is rejected with the unknown-chain code and the add
\* succeeds, switchNetwork has sent the switch, the add with the fixed
\* descriptor, and the switch again.
C13_RetryAfterAdd ==
  sw.result = "added" => sw.requests = <<SwitchRequest, AddRequest, SwitchRequest>>

\* C14: when the switch is rejected with another code, or the add is
\* rejected, switchNetwork reports "Network switch failed", sends no further
\* request and leaves the session and the wallet as they were.
C14_SwitchFailure ==
  [][((\E code \in ErrorCodes \ {UNKNOWN_CHAIN} : SwitchRejects(code)) \/ AddRejects) =>
       /\ toast' = "Network switch failed"
       /\ sw'.pc = "idle"
       /\ sw'.requests = sw.requests
       /\ web3' = web3
       /\ ethereum' = ethereum]_vars

\* a switchNetwork call that ended in failure after the add was rejected
C14_Witness ==
  /\ sw.pc = "idle" /\ sw.result = "failed"
  /\ toast = "Network switch failed"
  /\ sw.requests = <<SwitchRequest, AddRequest>>
\* C15: when the wallet-connection effect runs with a session address and no
\* stored identity, it creates and stores the identity with id "wallet-" +
\* address, accountType "student", a name made of the first six characters
\* of the address, and walletAddress equal to the address.
C15_Synthesis ==
  [][(HandleWalletConnection /\ web3.address # NULL /\ localStorage = NULL) =>
       /\ auth'.user # NULL
       /\ auth'.user.id = <<"wallet-">> \o web3.address
       /\ auth'.user.accountType = "student"
       /\ auth'.user.name = <<"User ">> \o SubSeq(web3.address, 1, 6)
       /\ auth'.user.walletAddress = web3.address
       /\ localStorage' # NULL
       /\ JSONParse(localStorage') = auth'.user]_vars

\* the synthesized identity of the connected address, in memory and stored
C15_Witness ==
  /\ web3.address # NULL
  /\ deps.address = web3.address
  /\ toast = "Wallet account created"
  /\ auth.user # NULL
  /\ auth.user.id = <<"wallet-">> \o web3.address
  /\ JSONParse(localStorage) = auth.user

\* C16: when the effect runs with session address B and a stored identity
\* whose walletAddress is another address or absent, the identity's
\* walletAddress becomes B in memory and in the stored record.
C16_LinkOverwrite ==
  [][(/\ HandleWalletConnection
      /\ web3.address # NULL
      /\ localStorage # NULL
      /\ JSONParse(localStorage).walletAddress # web3.address) =>
       /\ auth'.user # NULL
       /\ auth'.user.walletAddress = web3.address
       /\ JSONParse(localStorage').walletAddress = web3.address]_vars

\* an identity synthesized for one address that is now linked to another,
\* the session's
C16_Witness ==
  /\ web3.address # NULL
  /\ deps.address = web3.address
  /\ toast = "Wallet linked"
  /\ auth.user # NULL
  /\ auth.user.walletAddress = web3.address
  /\ \E a \in Addresses \ {web3.address} : auth.user.id = <<"wallet-">> \o a
  /\ JSONParse(localStorage).walletAddress = web3.address

\* C18: linkWallet(address) with no user fails ("Wallet linking failed") and
\* changes neither the user nor the stored record; with a user it sets
\* walletAddress to the address, in memory and in the stored record.
C18_LinkRequiresIdentity ==
  [][\A a \in Addresses : LinkWalletCall(a) =>
       IF auth.user = NULL
       THEN /\ auth' = auth
            /\ localStorage' = localStorage
            /\ toast' = "Wallet linking failed"
       ELSE /\ auth'.user = [auth.user EXCEPT !.walletAddress = a]
            /\ JSONParse(localStorage') = auth'.user]_vars

\* a link that failed for want of a user and left nothing behind
C18_Witness ==
  /\ toast = "Wallet linking failed"
  /\ auth.user = NULL
  /\ localStorage = NULL

\* C19: logout() disconnects the session exactly when the user has a
\* walletAddress, and always ends with no user in memory and no stored record.
C19_Logout ==
  [][Logout =>
       /\ IF auth.user # NULL /\ auth.user.walletAddress # NULL
          THEN /\ web3'.address = NULL /\ web3'.signer = NULL /\ web3'.contract = NULL
               /\ web3'.chainId = web3.chainId
          ELSE web3' = web3
       /\ auth'.user = NULL
       /\ localStorage' = NULL]_vars

\* logged out, and the session the effect last saw connected is cleared
\* while the wallet still holds the account
C19_Witness ==
  /\ toast = "Logged out"
  /\ auth.user = NULL
  /\ localStorage = NULL
  /\ ethereum.account # NULL
  /\ deps.address = ethereum.account
  /\ web3.address = NULL /\ web3.signer = NULL

\* C20: login(email, password) succeeds and yields accountType "institution"
\* for the emails that contain "institution" and "student" for the others,
\* whatever the password and whatever identity was there before.
C20_LoginHeuristic ==
  [][\A email \in Emails, password \in Passwords : Login(email, password) =>
       /\ toast' = "Login successful"
       /\ auth'.user # NULL
       /\ auth'.user.email = email
       /\ auth'.user.accountType =
            (IF email \in {EmailInstitution, EmailLocalPart} THEN "institution" ELSE "student")
       /\ JSONParse(localStorage') = auth'.user]_vars

\* an institution login that replaced a stored student identity
C20_Witness ==
  /\ toast = "Login successful"
  /\ auth.user # NULL
  /\ auth.user.email = EmailInstitution
  /\ auth.user.accountType = "institution"
  /\ auth.user.walletAddress # NULL
  /\ JSONParse(localStorage) = auth.user
\* no operation of the session or of the identity layer is in flight
Quiescent ==
  /\ Settled
  /\ ~reloadPending
  /\ chk.pc = "done"
  /\ \A k \in Callers : conn[k].pc = "idle"
  /\ settings.pc = "idle"

\* C17: in every quiescent state in which the user has a walletAddress and
\* the session has an address, the two are the same.
C17_AddressAgreement ==
  (Quiescent /\ auth.user # NULL /\ auth.user.walletAddress # NULL /\ web3.address # NULL)
    => auth.user.walletAddress = web3.address

\* quiescent, with an identity synthesized for one address that holds the
\* session's other address
C17_Witness ==
  /\ Quiescent
  /\ auth.user # NULL
  /\ web3.address # NULL
  /\ auth.user.walletAddress = web3.address
  /\ \E a \in Addresses \ {web3.address} : auth.user.id = <<"wallet-">> \o a

\* the entries fetchCredentials returns for address a when the lookups at the
\* indices in skp failed: the other tokens of a, by index
Kept(a, skp) ==
  LET idx == SelectSeq([j \in 1..BalanceOf(a) |-> j - 1], LAMBDA i : i \notin skp)
  IN  [j \in 1..Len(idx) |-> TokenOfOwnerByIndex(a, idx[j])]

\* C21: the list a completed batch fetch shows holds exactly the items whose
\* lookups succeeded, in their original order; a failed item is skipped and
\* does not set the screen's error.
C21_BatchPartialFailure ==
  screen.shownFor # NULL => screen.credentials = Kept(screen.shownFor, screen.skipped)

\* three tokens, the lookup of the second failed
C21_Witness ==
  /\ screen.shownFor = AddressOf(1)
  /\ screen.skipped = {1}
  /\ screen.credentials = <<TokenOfOwnerByIndex(AddressOf(1), 0), TokenOfOwnerByIndex(AddressOf(1), 2)>>
  /\ ~screen.error

\* C22: no contract operation is invoked at a moment when the session's
\* contract is null: a fetch that starts or resumes into its next contract
\* call does so while the session holds a contract, also when the fetch was
\* started before a disconnect or an empty accountsChanged.
C22_NoCallOnNullHandle ==
  [][\A s \in FetchCalls :
       (fetch'[s] # fetch[s] /\ fetch'[s].pc # "idle") => web3.contract # NULL]_vars

\* a step of checkConnection
ChkStep == ChkGetNetwork \/ ChkListAccounts \/ ChkGetSigner \/ ChkGetAddress \/ ChkFails

\* C23: initialize never makes the wallet prompt or authorize an account;
\* without a wallet provider it never runs and the session stays null; with
\* an authorized account it ends with signer and address set and the contract
\* bound exactly when chainId is the required chain; with no authorized
\* account it ends leaving address, signer and contract as they are.
C23_Initialize ==
  [][/\ ChkStep => (ethereum' = ethereum /\ ethereum.present)
     /\ ~ethereum.present => Fields(web3') = Fields(MountWeb3(ethereum))
     /\ ChkGetAddress
          => /\ chk'.pc = "done"
             /\ web3'.signer = chk.signer /\ web3'.address = chk.signer /\ chk.signer # NULL
             /\ (web3'.contract # NULL) <=> (web3'.chainId = REQUIRED_CHAIN_ID)
     /\ (ChkListAccounts /\ ethereum.account = NULL)
          => (chk'.pc = "done" /\ web3' = web3)]_vars

\* the contract half of C23 outside the window between handleChainChanged and
\* the reload
NoReloadPendingInitialize ==
  [][(ChkGetAddress /\ ~reloadPending)
          => /\ chk'.pc = "done"
             /\ web3'.signer = chk.signer /\ web3'.address = chk.signer /\ chk.signer # NULL
             /\ (web3'.contract # NULL) <=> (web3'.chainId = REQUIRED_CHAIN_ID)]_vars

\* C24: when a user's connect completes, the session reflects the wallet's
\* last accounts event: the address is the account the wallet has now, and
\* address, signer and contract are null when accountsChanged([]) was handled
\* while the connect was suspended.
C24_LastEventWins ==
  [][GetAddress("user")
       => /\ web3'.address = ethereum.account
          /\ ethereum.account = NULL
               => (web3'.signer = NULL /\ web3'.contract = NULL)]_vars

\* this step wrote a record to the persisted identity store
Wrote == localStorage' # localStorage /\ localStorage' # NULL

\* the identity after this step is the one before it with field f rewritten
FromCurrent(f) ==
  /\ auth.user # NULL
  /\ \A g \in DOMAIN auth.user \ {f} : auth'.user[g] = auth.user[g]

\* C25: every write to the persisted identity store is a complete record, the
\* whole in-memory identity, and link, unlink and updateAccountType build it
\* from the identity current at the write: all its other fields are kept,
\* also for the updateAccountType that follows register in a wallet
\* registration.
C25_FullRecordWrites ==
  [][/\ Wrote => /\ {"id", "name", "accountType"} \subseteq DOMAIN localStorage'
                 /\ JSONParse(localStorage') = auth'.user
     /\ (HandleWalletConnection /\ Wrote /\ auth.user # NULL) => FromCurrent("walletAddress")
     /\ \A a \in Addresses : (LinkWalletCall(a) /\ Wrote) => FromCurrent("walletAddress")
     /\ (AuthDisconnectWallet /\ Wrote) => FromCurrent("walletAddress")
     /\ \A t \in AccountTypes : (SettingsOnSubmit(t) /\ Wrote) => FromCurrent("accountType")
     /\ \A v \in WalletValues :
          (OnWalletSubmit(v) /\ Wrote)
            => \E id \in RandomIds :
                 auth'.user = RegisterUser(WalletUserData(v), id, web3.address)]_vars

\* C26: a wallet registration that completes successfully leaves the
\* submitted name and account type in the in-memory and in the persisted
\* identity.
C26_WalletRegistration ==
  [][\A v \in WalletValues :
       (OnWalletSubmit(v) /\ toast' = "Account created!")
         => /\ auth'.user.name = v.name /\ auth'.user.accountType = v.accountType
            /\ localStorage'.name = v.name /\ localStorage'.accountType = v.accountType]_vars

\* C27: in every state between two tasks the persisted identity entry and the
\* in-memory identity are both absent or hold the same record.
C27_StoreMirrorsMemory == JSONParse(localStorage) = auth.user

\* the settings screen changed the account type of an identity with a wallet
C27_Witness ==
  /\ toast = "Settings updated"
  /\ auth.user # NULL
  /\ auth.user.walletAddress # NULL
  /\ auth.user.accountType = "institution"
  /\ localStorage = JSONStringify(auth.user)

\* no fetchCredentials call is in flight
NoFetchInFlight == \A s \in FetchCalls : fetch[s].pc = "idle"

\* C28: on a mounted credentials screen whose session can fetch, once the
\* effect has run for the current address and contract and every fetch has
\* completed without the screen's error, the list shown is the one fetched
\* for the current address.
C28_ListOfCurrentAddress ==
  (/\ screen.mounted /\ ScreenFlushed /\ NoFetchInFlight
   /\ CanFetch(ScreenDeps(web3)) /\ ~screen.error)
    => screen.shownFor = web3.address

\* C29: after logout() has completed, and until the user logs in, registers
\* or connects a wallet, no identity exists in memory or in the persisted
\* store, also across reloads of the application.
C29_LogoutIsSticky == loggedOut => (auth.user = NULL /\ localStorage = NULL)

====
